---------------------------- MODULE Spec2Model ----------------------------
(***************************************************************************)
(* A model of the foodplanner repository: the meal-plan parser of          *)
(* src/main.py (header-only) and of src/foodlogger.py (delimiter-aware),   *)
(* the meal-plan generation call, and the Streamlit session of both apps.  *)
(*                                                                         *)
(* Python strings are TLA+ strings; the character at position i of s is    *)
(* SubSeq(s, i, i).  Positions are 1-based; a range [from, to) is given by *)
(* its first position and the position after its last.                     *)
(***************************************************************************)
EXTENDS Integers, Sequences, FiniteSets, TLC

\* ------------------------------------------------------------------------
\* Characters and the str methods the parsers use
\* ------------------------------------------------------------------------

Ch(s, i) == SubSeq(s, i, i)

UpperLetters == "ABCDEFGHIJKLMNOPQRSTUVWXYZ"
LowerLetters == "abcdefghijklmnopqrstuvwxyz"

Upper == {Ch(UpperLetters, i) : i \in 1..26}
Lower == {Ch(LowerLetters, i) : i \in 1..26}
\* [A-Za-z], and [A-Z] under re.IGNORECASE
Letter == Upper \cup Lower
\* \d
Digit == {"0", "1", "2", "3", "4", "5", "6", "7", "8", "9"}
\* \s, and what str.strip() removes
Space == {" ", "\n", "\t"}
\* [\s:.-]
SepChars == Space \cup {":", ".", "-"}

LetterIndex(c) == CHOOSE i \in 1..26 : Ch(UpperLetters, i) = c \/ Ch(LowerLetters, i) = c

ToUpper(c) == IF c \in Lower THEN Ch(UpperLetters, LetterIndex(c)) ELSE c
ToLower(c) == IF c \in Upper THEN Ch(LowerLetters, LetterIndex(c)) ELSE c

RECURSIVE LowerStr(_)
LowerStr(s) == IF s = "" THEN "" ELSE ToLower(Ch(s, 1)) \o LowerStr(SubSeq(s, 2, Len(s)))

\* str.capitalize(): first character upper-cased, the rest lower-cased
Capitalize(s) == IF s = "" THEN "" ELSE ToUpper(Ch(s, 1)) \o LowerStr(SubSeq(s, 2, Len(s)))

\* The first position >= i of t whose character is not in S (Len(t)+1 if none):
\* where a greedy S* started at i stops.
RECURSIVE SkipSet(_, _, _)
SkipSet(S, t, i) == IF i <= Len(t) /\ Ch(t, i) \in S THEN SkipSet(S, t, i + 1) ELSE i

\* The last position <= i of t whose character is not in S (0 if none).
RECURSIVE SkipSetBack(_, _, _)
SkipSetBack(S, t, i) == IF i >= 1 /\ Ch(t, i) \in S THEN SkipSetBack(S, t, i - 1) ELSE i

\* str.strip()
Strip(s) ==
    LET a == SkipSet(Space, s, 1)
        b == SkipSetBack(Space, s, Len(s))
    IN  IF a > b THEN "" ELSE SubSeq(s, a, b)

\* str.startswith(prefix)
StartsWith(s, prefix) == Len(s) >= Len(prefix) /\ SubSeq(s, 1, Len(prefix)) = prefix

\* The literal DAY at position i, case-insensitively
DayAt(t, i) ==
    /\ i + 2 <= Len(t)
    /\ ToUpper(Ch(t, i)) = "D"
    /\ ToUpper(Ch(t, i + 1)) = "A"
    /\ ToUpper(Ch(t, i + 2)) = "Y"

\* ------------------------------------------------------------------------
\* Ordered dictionaries (Python dict): a sequence of [key, value] in
\* insertion order; assigning to an existing key keeps its position.
\* ------------------------------------------------------------------------

Keys(d) == [i \in 1..Len(d) |-> d[i].key]
HasKey(d, k) == \E i \in 1..Len(d) : d[i].key = k
Get(d, k) == d[CHOOSE i \in 1..Len(d) : d[i].key = k].value

DictSet(d, k, v) ==
    IF HasKey(d, k)
    THEN [i \in 1..Len(d) |-> IF d[i].key = k THEN [key |-> k, value |-> v] ELSE d[i]]
    ELSE Append(d, [key |-> k, value |-> v])

\* ------------------------------------------------------------------------
\* src/main.py: parse_meal_plan_by_day (header-only)
\* ------------------------------------------------------------------------

NoMatch == [ok |-> FALSE, start |-> 0, end |-> 0, name |-> ""]

\* re.match of  DAY\s+\d+\s*:\s*([A-Z]+)  (IGNORECASE) at position i.
\* Each greedy run is followed by a character outside its class, so the
\* greedy match is the only one.
day_pattern_at(t, i) ==
    LET a == i + 3
        b == SkipSet(Space, t, a)
        c == SkipSet(Digit, t, b)
        d == SkipSet(Space, t, c)
        f == SkipSet(Space, t, d + 1)
        g == SkipSet(Letter, t, f)
    IN  IF /\ DayAt(t, i)
           /\ b > a
           /\ c > b
           /\ d <= Len(t) /\ Ch(t, d) = ":"
           /\ g > f
        THEN [ok |-> TRUE, start |-> i, end |-> g, name |-> SubSeq(t, f, g - 1)]
        ELSE NoMatch

\* list(re.finditer(day_pattern, text, re.IGNORECASE)) from position pos on
RECURSIVE day_matches(_, _)
day_matches(t, pos) ==
    IF pos > Len(t) THEN <<>>
    ELSE LET m == day_pattern_at(t, pos)
         IN  IF m.ok THEN <<m>> \o day_matches(t, m.end)
             ELSE day_matches(t, pos + 1)

\* The loop of lines 77-89, from match i on, into dictionary d
RECURSIVE main_fill(_, _, _, _)
main_fill(t, ms, i, d) ==
    IF i > Len(ms) THEN d
    ELSE LET day_name == Capitalize(ms[i].name)
             start_pos == ms[i].start
             end_pos == IF i < Len(ms) THEN ms[i + 1].start ELSE Len(t) + 1
             day_content == Strip(SubSeq(t, start_pos, end_pos - 1))
         IN  main_fill(t, ms, i + 1, DictSet(d, day_name, day_content))

FullPlan(t) == <<[key |-> "Full Plan", value |-> t]>>

MainFallbackDropped(t) == main_fill(t, day_matches(t, 1), 1, <<>>)

parse_meal_plan_by_day_main(t) ==
    LET daily_plans == main_fill(t, day_matches(t, 1), 1, <<>>)
    IN  IF daily_plans = <<>> THEN FullPlan(t) ELSE daily_plans

\* ------------------------------------------------------------------------
\* src/foodlogger.py: parse_meal_plan_by_day (delimiter-aware)
\* ------------------------------------------------------------------------

Delimiter == "-=*=-"

DelimiterAt(t, i) == i + 4 <= Len(t) /\ SubSeq(t, i, i + 4) = Delimiter

\* Where the lazy (.*?) started at p stops: the first position from which
\* (?:\s*-=\*=-|$) matches.  Without re.MULTILINE, $ matches at the end of
\* the text and before a newline that ends it.
LazyToEndOfText(t, p) == Len(t) + 1

RECURSIVE lazy_end(_, _)
lazy_end(t, p) ==
    IF p > Len(t) THEN p
    ELSE IF DelimiterAt(t, SkipSet(Space, t, p)) THEN p
    ELSE IF p = Len(t) /\ Ch(t, p) = "\n" THEN p
    ELSE lazy_end(t, p + 1)

NoFlMatch == [ok |-> FALSE, start |-> 0, end |-> 0, header |-> "", name |-> "", content |-> ""]

\* re.match of  (?i)(DAY\s+\d+[\s:.-]*([A-Za-z]+))\s*(.*?)(?:\s*-=\*=-|$)
\* (DOTALL) at position i.  The \s* after the header is greedy and the lazy
\* group can always reach $, so the first attempt succeeds.
pattern_at(t, i) ==
    LET a == i + 3
        b == SkipSet(Space, t, a)
        c == SkipSet(Digit, t, b)
        d == SkipSet(SepChars, t, c)
        e == SkipSet(Letter, t, d)
        f == SkipSet(Space, t, e)
        p == lazy_end(t, f)
        q == SkipSet(Space, t, p)
    IN  IF DayAt(t, i) /\ b > a /\ c > b /\ e > d
        THEN [ok |-> TRUE, start |-> i,
              end |-> IF DelimiterAt(t, q) THEN q + 5 ELSE p,
              header |-> SubSeq(t, i, e - 1),
              name |-> SubSeq(t, d, e - 1),
              content |-> SubSeq(t, f, p - 1)]
        ELSE NoFlMatch

\* re.finditer(pattern, text, re.DOTALL) from position pos on
RECURSIVE matches(_, _)
matches(t, pos) ==
    IF pos > Len(t) THEN <<>>
    ELSE LET m == pattern_at(t, pos)
         IN  IF m.ok THEN <<m>> \o matches(t, m.end)
             ELSE matches(t, pos + 1)

\* The loop of lines 113-117
RECURSIVE fl_fill(_, _, _)
fl_fill(ms, i, d) ==
    IF i > Len(ms) THEN d
    ELSE LET header == Strip(ms[i].header)
             day_name == Capitalize(ms[i].name)
             day_content == Strip(ms[i].content)
         IN  fl_fill(ms, i + 1, DictSet(d, day_name, header \o "\n" \o day_content))

parse_meal_plan_by_day_foodlogger(t) ==
    LET daily_plans == fl_fill(matches(t, 1), 1, <<>>)
    IN  IF daily_plans = <<>> THEN FullPlan(t) ELSE daily_plans

\* ------------------------------------------------------------------------
\* Plan texts: concatenations of tokens
\* ------------------------------------------------------------------------

MaxTokens == 4

\* Day headers of the form 'DAY n: NAME', in the cases a model returns
HeaderTokens == {"DAY 1: MON", "Day 2: tue", "day 3: Mon"}
ContentTokens == {" egg", "\n"}
Tokens == HeaderTokens \cup ContentTokens \cup {Delimiter}

RECURSIVE Concat(_)
Concat(ts) == IF ts = <<>> THEN "" ELSE Head(ts) \o Concat(Tail(ts))

TokenSeqs == UNION {[1..n -> Tokens] : n \in 0..MaxTokens}

VARIABLES tokens, text, res_main, res_fl

pvars == <<tokens, text, res_main, res_fl>>

\* No result yet (no parser returns a dictionary with an empty key)
Unset == <<[key |-> "", value |-> ""]>>

ParserIdle ==
    /\ tokens = <<>>
    /\ text = ""
    /\ res_main = Unset
    /\ res_fl = Unset

ParseMain ==
    /\ res_main = Unset
    /\ res_main' = parse_meal_plan_by_day_main(text)
    /\ UNCHANGED <<tokens, text, res_fl>>

ParseFoodlogger ==
    /\ res_fl = Unset
    /\ res_fl' = parse_meal_plan_by_day_foodlogger(text)
    /\ UNCHANGED <<tokens, text, res_main>>

\* ------------------------------------------------------------------------
\* Python values that may be None, a str or something else
\* ------------------------------------------------------------------------

PyNone == [t |-> "None", s |-> ""]
PyStr(x) == [t |-> "str", s |-> x]
\* A non-empty list (the chat API may return the content as a list of chunks)
PyList == [t |-> "list", s |-> ""]
\* A number
PyNum == [t |-> "int", s |-> "5"]

\* bool(v)
Truthy(v) == v.t \in {"list", "int"} \/ (v.t = "str" /\ v.s # "")

\* ------------------------------------------------------------------------
\* generate_meal_plan: the chat-completion call and what is made of it
\* ------------------------------------------------------------------------

\* What lines 52-56 of main.py (90-94 of foodlogger.py) raise
NoException == [class |-> "", msg |-> ""]
ConnectionError == [class |-> "RequestException", msg |-> "Connection refused"]
HTTPError == [class |-> "RequestException", msg |-> "500 Server Error"]
\* response.json() on a malformed body: requests.exceptions.JSONDecodeError
\* (a RequestException) or, before requests 2.27, a plain ValueError
RequestsJSONDecodeError == [class |-> "RequestException", msg |-> "Expecting value"]
ValueError == [class |-> "ValueError", msg |-> "Expecting value"]
\* result["choices"], ["message"] or ["content"] is missing
KeyError == [class |-> "KeyError", msg |-> "'choices'"]
\* result["choices"] is the empty list
IndexError == [class |-> "IndexError", msg |-> "list index out of range"]
\* the body is the JSON null, or result["choices"] is
TypeError == [class |-> "TypeError", msg |-> "'NoneType' object is not subscriptable"]

Failures ==
    {ConnectionError, HTTPError, RequestsJSONDecodeError, ValueError, KeyError, IndexError,
     TypeError}

\* Plan texts a successful call returns
TwoDays == "DAY 1: MON egg -=*=- Day 2: tue egg -=*=-"
OneDay == "Intro\nDAY 1: MON egg"
NoDays == "Eat more eggs."
PlanTexts == {TwoDays, OneDay, NoDays, ""}

\* An outcome of the call: an exception, or the value of
\* result["choices"][0]["message"]["content"]
Outcomes ==
    {[exc |-> e, content |-> PyNone] : e \in Failures}
    \cup {[exc |-> NoException, content |-> c] :
            c \in {PyNone, PyList} \cup {PyStr(x) : x \in PlanTexts}}

Failed(o) == o.exc # NoException

\* src/main.py generate_meal_plan, lines 51-60
generate_meal_plan_main(o) ==
    [value |-> IF Failed(o)
               THEN PyStr("Error generating meal plan: " \o o.exc.msg)
               ELSE o.content,
     requested |-> TRUE]

MissingKeyMessage == "Error: Mistral API key not found. Please set up your API key."

\* src/foodlogger.py generate_meal_plan, lines 47-49 and 89-101; api_key is
\* whether MISTRAL_API_KEY is set
generate_meal_plan_foodlogger_unguarded(api_key, o) ==
    [value |-> IF ~Failed(o) THEN o.content
               ELSE IF o.exc.class = "RequestException"
                    THEN PyStr("API Request Error: " \o o.exc.msg)
               ELSE IF o.exc.class = "KeyError"
                    THEN PyStr("API Response Format Error: " \o o.exc.msg)
               ELSE PyStr("Unexpected Error: " \o o.exc.msg),
     requested |-> TRUE]

generate_meal_plan_foodlogger(api_key, o) ==
    IF ~api_key
    THEN [value |-> PyStr(MissingKeyMessage), requested |-> FALSE]
    ELSE [value |-> IF ~Failed(o) THEN o.content
                    ELSE IF o.exc.class = "RequestException"
                         THEN PyStr("API Request Error: " \o o.exc.msg)
                    ELSE IF o.exc.class = "KeyError"
                         THEN PyStr("API Response Format Error: " \o o.exc.msg)
                    ELSE PyStr("Unexpected Error: " \o o.exc.msg),
          requested |-> TRUE]

\* The strings generate_meal_plan returns for a failed call
ErrorTexts ==
    {generate_meal_plan_main(o).value.s : o \in {x \in Outcomes : Failed(x)}}
    \cup {generate_meal_plan_foodlogger(TRUE, o).value.s : o \in {x \in Outcomes : Failed(x)}}
    \cup {MissingKeyMessage}

VARIABLES
    api_key,     \* whether MISTRAL_API_KEY is set when generate_meal_plan is called
    outcome,     \* the outcome of the call it makes
    ret_main,    \* what generate_meal_plan of main.py returned
    ret_fl       \* what generate_meal_plan of foodlogger.py returned

gvars == <<api_key, outcome, ret_main, ret_fl>>

\* No call yet
NotCalled == [value |-> PyNone, requested |-> FALSE, called |-> FALSE]
Called(r) == [value |-> r.value, requested |-> r.requested, called |-> TRUE]

GenerateIdle ==
    /\ api_key = FALSE
    /\ outcome = [exc |-> NoException, content |-> PyNone]
    /\ ret_main = NotCalled
    /\ ret_fl = NotCalled

CallGenerateMain ==
    /\ ~ret_main.called
    /\ ret_main' = Called(generate_meal_plan_main(outcome))
    /\ UNCHANGED <<api_key, outcome, ret_fl>>

CallGenerateFoodlogger ==
    /\ ~ret_fl.called
    /\ ret_fl' = Called(generate_meal_plan_foodlogger(api_key, outcome))
    /\ UNCHANGED <<api_key, outcome, ret_main>>

\* ------------------------------------------------------------------------
\* The Streamlit session (st.session_state) of both apps
\* ------------------------------------------------------------------------

MaxHistory == 2

VARIABLES
    app,                 \* "main" (src/main.py) or "foodlogger" (src/foodlogger.py)
    env_key,             \* whether MISTRAL_API_KEY is in os.environ
    meal_plan,           \* st.session_state.meal_plan
    daily_plans,         \* st.session_state.daily_plans
    current_day,         \* st.session_state.current_day
    meal_plan_history,   \* st.session_state.meal_plan_history (foodlogger.py)
    current_plan_id,     \* st.session_state.current_plan_id (foodlogger.py)
    history_current_day, \* st.session_state.history_current_day (foodlogger.py)
    run                  \* what the last script run did

svars == <<app, env_key, meal_plan, daily_plans, current_day, meal_plan_history,
           current_plan_id, history_current_day, run>>


\* The profile the sidebar widgets give
Profiles ==
    {[age |-> 30, gender |-> "Female", weight |-> 70, height |-> 170,
      activity |-> "Active", dietary |-> <<"None">>, menstrual_cycle |-> "Luteal",
      fitness_goal |-> "Maintenance", additional_preferences |-> ""]}

\* datetime.datetime.now().strftime("%Y-%m-%d %H:%M")
Dates == {"2025-03-01 10:00"}

\* str(uuid.uuid4()): the first two differ and share their first 8 characters
Uuids == {"3f2a9c1e-58b1-4c6e-9d57-0a1b2c3d4e5f",
          "3f2a9c1e-0c7d-4f11-8a2b-93c1d2e3f4a5",
          "b7d04e55-1a2b-4c3d-8e4f-5a6b7c8d9e0f"}

\* The outcomes of the chat-completion call in the session
SessionOutcomes ==
    {[exc |-> e, content |-> PyNone] : e \in {ConnectionError, KeyError}}
    \cup {[exc |-> NoException, content |-> c] :
            c \in {PyNone, PyList, PyStr(TwoDays), PyStr(NoDays)}}

\* The strings generate_meal_plan returns in the session, and what the parsers
\* make of each
SessionTexts ==
    {generate_meal_plan_main(o).value.s : o \in SessionOutcomes}
    \cup {generate_meal_plan_foodlogger(TRUE, o).value.s : o \in SessionOutcomes}

ParsedByMain == [x \in SessionTexts |-> parse_meal_plan_by_day_main(x)]
ParsedByFoodlogger == [x \in SessionTexts |-> parse_meal_plan_by_day_foodlogger(x)]

\* st.session_state as one record
SessionState ==
    [meal_plan |-> meal_plan, daily_plans |-> daily_plans, current_day |-> current_day,
     meal_plan_history |-> meal_plan_history, current_plan_id |-> current_plan_id,
     history_current_day |-> history_current_day]

\* The session-state initialisation of main(): lines 197-204 of main.py,
\* 269-280 of foodlogger.py
InitialState ==
    [meal_plan |-> PyNone, daily_plans |-> <<>>, current_day |-> PyNone,
     meal_plan_history |-> <<>>, current_plan_id |-> PyNone,
     history_current_day |-> PyNone]

\* What a script run did: the button it handled ("" for none), whether it
\* issued a network request, whether that request or the reading of its
\* response failed, the message it gave to st.error ("" if none), the id of the
\* plan it showed in the history tab ("" if none), the day button clicked in it
\* ("" if none), and whether it ended in an uncaught exception
NoRun ==
    [action |-> "", requested |-> FALSE, failed |-> FALSE, error |-> "",
     selected |-> "", day |-> "", crashed |-> FALSE]

Report(action) == [NoRun EXCEPT !.action = action]

\* A script run leaves the session state ss and the report r
Ran(ss, r) == [ss |-> ss, r |-> r]

\* foodlogger.py save_meal_plan, lines 237-254

profile_summary(profile) ==
    profile.gender \o ", " \o ToString(profile.age) \o "yo, " \o ToString(profile.weight)
        \o "kg, " \o ToString(profile.height) \o "cm, " \o profile.fitness_goal

plan_id_of(uuid) == SubSeq(uuid, 1, 8)

meal_plan_entry(profile, plan, uuid, now) ==
    [id |-> plan_id_of(uuid),
     date |-> now,
     profile |-> profile_summary(profile),
     details |-> profile,
     plan |-> plan,
     daily_plans |-> ParsedByFoodlogger[plan]]

save_meal_plan_appending(history, profile, plan, uuid, now) ==
    Append(history, meal_plan_entry(profile, plan, uuid, now))

save_meal_plan(history, profile, plan, uuid, now) ==
    <<meal_plan_entry(profile, plan, uuid, now)>> \o history

\* foodlogger.py load_meal_plan_from_history, lines 256-263: <<the entry>>,
\* or <<>> for None
RECURSIVE load_meal_plan_from_history(_, _)
load_meal_plan_from_history(history, plan_id) ==
    IF history = <<>> THEN <<>>
    ELSE IF Head(history).id = plan_id THEN <<Head(history)>>
    ELSE load_meal_plan_from_history(Tail(history), plan_id)

HistoryIds(history) == {history[i].id : i \in 1..Len(history)}

\* ------------------------------------------------------------------------
\* foodlogger.py recognize_food and format_nutritional_data
\* ------------------------------------------------------------------------

\* The least element of a non-empty set of positions, the greatest one
Least(P) == CHOOSE i \in P : \A k \in P : i <= k
Greatest(P) == CHOOSE i \in P : \A k \in P : i >= k

\* The first position >= from at which sub occurs in s, 0 if none
Find(s, sub, from) ==
    LET hits == {i \in from..(Len(s) - Len(sub) + 1) : SubSeq(s, i, i + Len(sub) - 1) = sub}
    IN  IF hits = {} THEN 0 ELSE Least(hits)

\* The last position <= i at which the character c occurs in s, 0 if none
FindLast(s, c, i) ==
    LET hits == {k \in 1..i : Ch(s, k) = c}
    IN  IF hits = {} THEN 0 ELSE Greatest(hits)

\* The code fence of line 189.  A TLA+ string cannot hold a backquote: in the
\* model's texts the character ~ stands for it.
Fence == "~~~"
FenceJson == "~~~json"

\* Where the lazy (.*?) of  <fence>json\s*(.*?)\s*<fence>  started at p stops
fence_lazy_end(s, p) ==
    Least({k \in p..Len(s) :
             LET q == SkipSet(Space, s, k)
             IN  q + 2 <= Len(s) /\ SubSeq(s, q, q + 2) = Fence})

JsonContentBracesFirst(response_content) ==
    IF StartsWith(Strip(response_content), "{") THEN response_content
    ELSE LET i == Find(response_content, FenceJson, 1)
             j == SkipSet(Space, response_content, i + Len(FenceJson))
             open == Find(response_content, "{", 1)
             close == FindLast(response_content, "}", Len(response_content))
         IN  IF open > 0 /\ close > open
             THEN SubSeq(response_content, open, close)
             ELSE IF i > 0 /\ Find(response_content, Fence, i + Len(FenceJson)) > 0
                  THEN SubSeq(response_content, j, fence_lazy_end(response_content, j) - 1)
                  ELSE response_content

\* Lines 187-195: the text handed to json.loads
json_content_of(response_content) ==
    IF StartsWith(Strip(response_content), "{") THEN response_content
    ELSE LET i == Find(response_content, FenceJson, 1)
             j == SkipSet(Space, response_content, i + Len(FenceJson))
             open == Find(response_content, "{", 1)
             close == FindLast(response_content, "}", Len(response_content))
         IN  IF i > 0 /\ Find(response_content, Fence, i + Len(FenceJson)) > 0
             THEN SubSeq(response_content, j, fence_lazy_end(response_content, j) - 1)
             ELSE IF open > 0 /\ close > open
                  THEN SubSeq(response_content, open, close)
                  ELSE response_content

\* JSON texts and json.loads of them.  A dict is an ordered dictionary; a
\* value that is no dict is [t |-> ...] as above.
EggsJson == "{\"meal\": \"Eggs\", \"ingredients\": {\"egg white\": {\"calories\": 70, \"protein\": 6}}, \"total\": {\"calories\": 70, \"protein\": 6}}"
ToastJson == "{\"meal\": \"Toast\", \"ingredients\": {}}"
NumberMealJson == "{\"meal\": 5}"
ListJson == "[1, 2]"
SaladJson == "{\"meal\": \"Salad\", \"ingredients\": {\"tomato\": {\"calories\": 20, \"saturated fat\": 0}, \"feta\": {\"calories\": 70, \"protein\": 6}}, \"total\": {\"calories\": 90, \"protein\": 6}}"
SoupJson == "{\"meal\": \"Soup\"}"
EmptyJson == "{}"
IngredientListJson == "{\"meal\": \"Eggs\", \"ingredients\": [\"egg\"]}"
BrokenJson == "{\"meal\": \"Eggs\""

EggNutrients == <<[key |-> "calories", value |-> 70], [key |-> "protein", value |-> 6]>>

TomatoNutrients == <<[key |-> "calories", value |-> 20], [key |-> "saturated fat", value |-> 0]>>
SaladTotal == <<[key |-> "calories", value |-> 90], [key |-> "protein", value |-> 6]>>

\* ok: the text is JSON; dict: it is a JSON object; lists: the keys of the
\* object whose value is a JSON array
NotJson == [ok |-> FALSE, dict |-> FALSE, data |-> <<>>, lists |-> {}]
JsonObject(data) == [ok |-> TRUE, dict |-> TRUE, data |-> data, lists |-> {}]

json_loads(json_content) ==
    LET doc == Strip(json_content)
    IN  CASE doc = EggsJson ->
                JsonObject(<<[key |-> "meal", value |-> PyStr("Eggs")],
                             [key |-> "ingredients",
                              value |-> <<[key |-> "egg white", value |-> EggNutrients]>>],
                             [key |-> "total", value |-> EggNutrients]>>)
          [] doc = SaladJson ->
                JsonObject(<<[key |-> "meal", value |-> PyStr("Salad")],
                             [key |-> "ingredients",
                              value |-> <<[key |-> "tomato", value |-> TomatoNutrients],
                                          [key |-> "feta", value |-> EggNutrients]>>],
                             [key |-> "total", value |-> SaladTotal]>>)
          [] doc = ToastJson ->
                JsonObject(<<[key |-> "meal", value |-> PyStr("Toast")],
                             [key |-> "ingredients", value |-> <<>>]>>)
          [] doc = SoupJson -> JsonObject(<<[key |-> "meal", value |-> PyStr("Soup")]>>)
          [] doc = EmptyJson -> JsonObject(<<>>)
          [] doc = NumberMealJson -> JsonObject(<<[key |-> "meal", value |-> PyNum]>>)
          [] doc = IngredientListJson ->
                [ok |-> TRUE, dict |-> TRUE,
                 data |-> <<[key |-> "meal", value |-> PyStr("Eggs")],
                            [key |-> "ingredients", value |-> PyList]>>,
                 lists |-> {"ingredients"}]
          [] doc = ListJson -> [ok |-> TRUE, dict |-> FALSE, data |-> <<>>, lists |-> {}]
          [] OTHER -> NotJson

\* str.title(): a letter is upper-cased after a non-letter, lower-cased after a letter
RECURSIVE TitleFrom(_, _)
TitleFrom(s, after_letter) ==
    IF s = "" THEN ""
    ELSE LET c == Ch(s, 1)
         IN  (IF after_letter THEN ToLower(c) ELSE ToUpper(c))
                 \o TitleFrom(SubSeq(s, 2, Len(s)), c \in Letter)

Title(s) == TitleFrom(s, FALSE)

\* "\n".join(lines)
RECURSIVE JoinLines(_)
JoinLines(lines) ==
    IF lines = <<>> THEN ""
    ELSE IF Len(lines) = 1 THEN lines[1]
    ELSE lines[1] \o "\n" \o JoinLines(Tail(lines))

RECURSIVE NutrientLinesAllGrams(_)
NutrientLinesAllGrams(nutrients) ==
    IF nutrients = <<>> THEN <<>>
    ELSE <<"- " \o Title(nutrients[1].key) \o ": " \o ToString(nutrients[1].value) \o " g">>
             \o NutrientLinesAllGrams(Tail(nutrients))

\* Lines 227-229 and 232-234: one line per nutrient
RECURSIVE nutrient_lines(_)
nutrient_lines(nutrients) ==
    IF nutrients = <<>> THEN <<>>
    ELSE LET nutrient == nutrients[1].key
             unit == IF nutrient # "calories" THEN "g" ELSE "kcal"
         IN  <<"- " \o Title(nutrient) \o ": " \o ToString(nutrients[1].value) \o " " \o unit>>
                 \o nutrient_lines(Tail(nutrients))

\* Lines 225-229
RECURSIVE ingredient_lines(_)
ingredient_lines(ingredients) ==
    IF ingredients = <<>> THEN <<>>
    ELSE <<"#### " \o Title(ingredients[1].key)>> \o nutrient_lines(ingredients[1].value)
             \o ingredient_lines(Tail(ingredients))

\* str(value) of a str or a number
StrOf(v) == v.s

\* Lines 218-235
format_nutritional_data(data) ==
    JoinLines(
        (IF HasKey(data, "meal") THEN <<"## " \o StrOf(Get(data, "meal"))>> ELSE <<>>)
        \o (IF HasKey(data, "ingredients")
            THEN <<"### Ingredients:">> \o ingredient_lines(Get(data, "ingredients"))
            ELSE <<>>)
        \o (IF HasKey(data, "total")
            THEN <<"### Total Nutritional Value:">> \o nutrient_lines(Get(data, "total"))
            ELSE <<>>))

\* What the multimodal call gives: an exception, or the value of
\* chat_response.choices[0].message.content
VisionTexts ==
    {EggsJson,
     FenceJson \o "\n" \o ToastJson \o "\n" \o Fence,
     "Here you go: " \o NumberMealJson \o " Enjoy!",
     ListJson,
     "I see eggs."}

VisionOutcomes ==
    {[exc |-> e, content |-> PyNone] : e \in {ConnectionError, IndexError}}
    \cup {[exc |-> NoException, content |-> c] :
            c \in {PyNone, PyList} \cup {PyStr(x) : x \in VisionTexts}}

\* The outcomes of the multimodal call in the session
SessionVisionOutcomes ==
    {[exc |-> ConnectionError, content |-> PyNone]}
    \cup {[exc |-> NoException, content |-> c] :
            c \in {PyNone, PyStr(EggsJson), PyStr("Here you go: " \o NumberMealJson \o " Enjoy!")}}

\* The values recognize_food returns: a str (an error), or a dict with
\* detected_items (a list of values) and nutritional_analysis (a str)
FoodError(msg) == [dict |-> FALSE, error |-> msg, detected_items |-> <<>>,
                   nutritional_analysis |-> "", raw |-> FALSE]
FoodInfo(items, analysis, raw) ==
    [dict |-> TRUE, error |-> "", detected_items |-> items,
     nutritional_analysis |-> analysis, raw |-> raw]

\* Lines 198-200
DetectedItemsWithoutFallback(nutritional_data) ==
    LET ingredients == IF HasKey(nutritional_data, "ingredients")
                       THEN Get(nutritional_data, "ingredients") ELSE <<>>
    IN  [i \in 1..Len(ingredients) |-> PyStr(ingredients[i].key)]

detected_items_of(nutritional_data) ==
    LET ingredients == IF HasKey(nutritional_data, "ingredients")
                       THEN Get(nutritional_data, "ingredients") ELSE <<>>
        keys == [i \in 1..Len(ingredients) |-> PyStr(ingredients[i].key)]
    IN  IF keys = <<>> /\ HasKey(nutritional_data, "meal")
        THEN <<Get(nutritional_data, "meal")>> ELSE keys

\* Lines 133-216
recognize_food(v) ==
    IF Failed(v) THEN FoodError("Error recognizing food: " \o v.exc.msg)
    ELSE IF v.content.t # "str"
         THEN FoodError("Error recognizing food: object has no attribute 'strip'")
    ELSE LET response_content == v.content.s
             parsed == json_loads(json_content_of(response_content))
             nutritional_data == parsed.data
         IN  IF ~parsed.ok
             THEN FoodInfo(<<PyStr("Unknown")>>,
                           "Could not parse nutritional data. Here's the raw response:\n\n"
                               \o response_content, FALSE)
             ELSE IF ~parsed.dict
                  THEN FoodError("Error recognizing food: object has no attribute 'get'")
             ELSE IF "ingredients" \in parsed.lists
                  THEN FoodError("Error recognizing food: 'list' object has no attribute 'keys'")
             ELSE FoodInfo(detected_items_of(nutritional_data),
                           format_nutritional_data(nutritional_data), TRUE)

\* ------------------------------------------------------------------------
\* recognize_food alone: what the multimodal model answers is a body inside a
\* wrapper
\* ------------------------------------------------------------------------

Bodies ==
    {EggsJson, SaladJson, ToastJson, SoupJson, EmptyJson, NumberMealJson,
     IngredientListJson, ListJson, BrokenJson, "I see eggs."}

Wrappers ==
    {"plain", "padded", "fenced", "prose fenced", "prose", "open fence",
     "braces then fenced", "object then fenced"}

Wrapped(w, b) ==
    CASE w = "plain" -> b
      [] w = "padded" -> "\n " \o b \o "\n"
      [] w = "fenced" -> FenceJson \o "\n" \o b \o "\n" \o Fence
      [] w = "prose fenced" -> "Here it is:\n" \o FenceJson \o "\n" \o b \o "\n" \o Fence \o "\nEnjoy!"
      [] w = "prose" -> "Here you go: " \o b \o " Enjoy!"
      [] w = "open fence" -> FenceJson \o "\n" \o b
      [] w = "braces then fenced" -> "Note {1}: " \o FenceJson \o " " \o b \o " " \o Fence
      [] w = "object then fenced" -> "{} " \o FenceJson \o "\n" \o b \o "\n" \o Fence

VARIABLES
    wrapper,     \* the wrapper of the answer ("" when the call gave no text)
    body,        \* the body inside it
    response,    \* the outcome of the multimodal call
    payload,     \* the text recognize_food hands to json.loads
    returned_food    \* what recognize_food returned

rvars == <<wrapper, body, response, payload, returned_food>>

NoPayload == [chosen |-> FALSE, text |-> ""]
NoFoodInfo == [returned |-> FALSE, value |-> FoodError("")]

RecognizeIdle ==
    /\ wrapper = ""
    /\ body = ""
    /\ response = [exc |-> NoException, content |-> PyNone]
    /\ payload = NoPayload
    /\ returned_food = NoFoodInfo

\* Lines 186-195, for an answer that is a text
ChoosePayload ==
    /\ ~payload.chosen
    /\ ~Failed(response) /\ response.content.t = "str"
    /\ payload' = [chosen |-> TRUE, text |-> json_content_of(response.content.s)]
    /\ UNCHANGED <<wrapper, body, response, returned_food>>

RecognizeFood ==
    /\ ~returned_food.returned
    /\ returned_food' = [returned |-> TRUE, value |-> recognize_food(response)]
    /\ UNCHANGED <<wrapper, body, response, payload>>

\* ------------------------------------------------------------------------
\* The nutrient extractor: extract(day_text) -> (NutrientSnapshot, MissingList)
\* ------------------------------------------------------------------------

MaxMentions == 3

\* The fixed nutrient set, in the order it is checked
NutrientNames == <<"Calories", "Protein", "Carbs", "Fat", "Fiber">>

\* The value of a run of decimal digits
RECURSIVE DigitsValue(_, _)
DigitsValue(s, acc) ==
    IF s = "" THEN acc
    ELSE DigitsValue(SubSeq(s, 2, Len(s)),
                     10 * acc + (CHOOSE v \in 0..9 : Ch("0123456789", v + 1) = Ch(s, 1)))

\* float(text) of digits with an optional fractional part: the whole part and
\* the fractional digits without their trailing zeros
ParseFloat(s) ==
    LET dot == Find(s, ".", 1)
        whole == IF dot = 0 THEN s ELSE SubSeq(s, 1, dot - 1)
        frac == IF dot = 0 THEN "" ELSE SubSeq(s, dot + 1, Len(s))
        last == SkipSetBack({"0"}, frac, Len(frac))
    IN  [whole |-> DigitsValue(whole, 0), frac |-> SubSeq(frac, 1, last)]

NoMention == [ok |-> FALSE, number |-> ""]

\* <Name>, optional whitespace, a colon, optional whitespace, a decimal
\* number, matched case-insensitively at position i
mention_at(t, i, name) ==
    LET a == i + Len(name)
        b == SkipSet(Space, t, a)
        c == SkipSet(Space, t, b + 1)
        d == SkipSet(Digit, t, c)
        f == SkipSet(Digit, t, d + 1)
        e == IF d <= Len(t) /\ Ch(t, d) = "." /\ f > d + 1 THEN f ELSE d
    IN  IF /\ a - 1 <= Len(t)
           /\ LowerStr(SubSeq(t, i, a - 1)) = LowerStr(name)
           /\ b <= Len(t) /\ Ch(t, b) = ":"
           /\ d > c
        THEN [ok |-> TRUE, number |-> SubSeq(t, c, e - 1)]
        ELSE NoMention

\* The first mention of name in t
first_mention(t, name) ==
    LET hits == {i \in 1..Len(t) : mention_at(t, i, name).ok}
    IN  IF hits = {} THEN NoMention ELSE mention_at(t, Least(hits), name)

LastMention(t, name) ==
    LET hits == {i \in 1..Len(t) : mention_at(t, i, name).ok}
    IN  IF hits = {} THEN NoMention ELSE mention_at(t, Greatest(hits), name)

\* The names of NutrientNames from index i on that satisfy found, in order
RECURSIVE nutrients_where(_, _, _)
nutrients_where(t, i, found) ==
    IF i > Len(NutrientNames) THEN <<>>
    ELSE (IF first_mention(t, NutrientNames[i]).ok = found THEN <<NutrientNames[i]>> ELSE <<>>)
             \o nutrients_where(t, i + 1, found)

ExtractLastMentions(day_text) ==
    LET present == nutrients_where(day_text, 1, TRUE)
    IN  [snapshot |-> [i \in 1..Len(present) |->
                         [key |-> present[i],
                          value |-> ParseFloat(LastMention(day_text, present[i]).number)]],
         missing |-> nutrients_where(day_text, 1, FALSE)]

extract(day_text) ==
    LET present == nutrients_where(day_text, 1, TRUE)
    IN  [snapshot |-> [i \in 1..Len(present) |->
                         [key |-> present[i],
                          value |-> ParseFloat(first_mention(day_text, present[i]).number)]],
         missing |-> nutrients_where(day_text, 1, FALSE)]

\* Day texts: concatenations of pieces
DayPieces ==
    {"Calories: 2000", "Protein: 42", "protein : 50.5", "Carbs:7", "Fat: 70",
     "Fiber: 30.0", "Fat 80 ", " and "}

DayPieceSeqs == UNION {[1..n -> DayPieces] : n \in 0..MaxMentions}

VARIABLES
    pieces,      \* the pieces of the day text
    day_text,    \* the day text
    extracted    \* what extract returned

xvars == <<pieces, day_text, extracted>>

NotExtracted == [done |-> FALSE, snapshot |-> <<>>, missing |-> <<>>]

ExtractIdle ==
    /\ pieces = <<>>
    /\ day_text = ""
    /\ extracted = NotExtracted

Extract ==
    /\ ~extracted.done
    /\ \E r \in {extract(day_text)} :
         extracted' = [done |-> TRUE, snapshot |-> r.snapshot, missing |-> r.missing]
    /\ UNCHANGED <<pieces, day_text>>

\* ------------------------------------------------------------------------
\* One script run of main(): the handler of the widget that caused the run,
\* then the rest of the page.  An uncaught exception ends the run where it is
\* raised; what was assigned to st.session_state before it stays.
\* ------------------------------------------------------------------------

Crashed(x) == Ran(x.ss, [x.r EXCEPT !.crashed = TRUE])

FirstKey(d) == PyStr(d[1].key)

\* main.py lines 235-246: the Generate button
main_generate(ss, profile, o) ==
    LET g == generate_meal_plan_main(o)
        stored == [ss EXCEPT !.meal_plan = g.value]
        r == [Report("generate") EXCEPT !.requested = g.requested, !.failed = Failed(o)]
    IN  IF g.value.t # "str"
        THEN \* re.finditer raises TypeError
             Crashed(Ran(stored, r))
        ELSE LET parsed == ParsedByMain[g.value.s]
             IN  Ran([stored EXCEPT !.daily_plans = parsed,
                                    !.current_day = IF parsed # <<>> THEN FirstKey(parsed) ELSE @],
                     r)

\* main.py lines 249-261: the plan, with the day button day clicked ("" for none)
main_display(x, day) ==
    IF ~Truthy(x.ss.meal_plan) THEN x
    ELSE IF Len(x.ss.daily_plans) = 0
         THEN \* st.columns(0) raises StreamlitAPIException
              Crashed(x)
    ELSE LET clicked == IF day # "" THEN [x.ss EXCEPT !.current_day = PyStr(day)] ELSE x.ss
             r == [x.r EXCEPT !.day = day]
         IN  IF Truthy(clicked.current_day) /\ ~HasKey(clicked.daily_plans, clicked.current_day.s)
             THEN \* KeyError
                  Crashed(Ran(clicked, r))
             ELSE Ran(clicked, r)

MissingKeyGenerate == "Missing Mistral API key. Please configure it to generate meal plans."
MissingKeyAnalyze == "Mistral API key is required for food analysis."

\* foodlogger.py lines 318-334: the Generate button
foodlogger_generate(ss, key, profile, o, uuid, now) ==
    IF ~key
    THEN Ran(ss, [Report("generate") EXCEPT !.error = MissingKeyGenerate])
    ELSE LET g == generate_meal_plan_foodlogger(key, o)
             r == [Report("generate") EXCEPT !.requested = g.requested,
                                             !.failed = Failed(o)]
         IN  IF g.value.t = "str" /\ StartsWith(g.value.s, "Error")
             THEN Ran(ss, [r EXCEPT !.error = g.value.s])
             ELSE IF g.value.t # "str"
                  THEN \* re.finditer raises TypeError
                       Crashed(Ran([ss EXCEPT !.meal_plan = g.value], r))
             ELSE LET parsed == ParsedByFoodlogger[g.value.s]
                  IN  Ran([ss EXCEPT
                             !.meal_plan = g.value,
                             !.daily_plans = parsed,
                             !.current_day = IF parsed # <<>> THEN FirstKey(parsed) ELSE @,
                             !.meal_plan_history =
                                 save_meal_plan(@, profile, g.value.s, uuid, now),
                             !.current_plan_id = PyStr(plan_id_of(uuid))],
                          r)

\* foodlogger.py lines 337-343: the current day of the plan
foodlogger_display(x) ==
    IF /\ Truthy(x.ss.meal_plan)
       /\ Truthy(x.ss.current_day)
       /\ ~HasKey(x.ss.daily_plans, x.ss.current_day.s)
    THEN \* KeyError
         Crashed(x)
    ELSE x

\* foodlogger.py lines 350-371: the Analyze Food button
foodlogger_analyze(x, key, v) ==
    IF ~key THEN Ran(x.ss, [x.r EXCEPT !.action = "analyze", !.error = MissingKeyAnalyze])
    ELSE LET food_info == recognize_food(v)
             r == [x.r EXCEPT !.action = "analyze", !.requested = TRUE]
         IN  IF ~food_info.dict THEN Ran(x.ss, [r EXCEPT !.error = food_info.error])
             ELSE IF \E i \in 1..Len(food_info.detected_items) :
                        food_info.detected_items[i].t # "str"
                  THEN \* ", ".join raises TypeError
                       Crashed(Ran(x.ss, r))
             ELSE Ran(x.ss, r)

\* foodlogger.py lines 373-437: the history tab with selected_plan_id in the
\* selectbox, the day button day clicked ("" for none), and the
\* Use This Plan Again button clicked or not

\* The history tab with line 420 reduced to "history_current_day is None": a
\* day remembered from another plan is looked up as it is
foodlogger_history_keeping_day(x, selected_plan_id, day, use) ==
    LET found == load_meal_plan_from_history(x.ss.meal_plan_history, selected_plan_id)
    IN  IF x.ss.meal_plan_history = <<>> \/ found = <<>> THEN x
        ELSE LET selected_plan == found[1]
                 clicked == IF day # "" THEN [x.ss EXCEPT !.history_current_day = PyStr(day)]
                            ELSE x.ss
                 shown == IF clicked.history_current_day = PyNone
                          THEN [clicked EXCEPT
                                  !.history_current_day = FirstKey(selected_plan.daily_plans)]
                          ELSE clicked
                 r == [x.r EXCEPT !.selected = selected_plan.id, !.day = day]
             IN  IF ~HasKey(selected_plan.daily_plans, shown.history_current_day.s)
                 THEN \* KeyError at line 426
                      Crashed(Ran(shown, r))
                 ELSE IF use
                 THEN Ran([shown EXCEPT
                             !.meal_plan = PyStr(selected_plan.plan),
                             !.daily_plans = selected_plan.daily_plans,
                             !.current_day = FirstKey(selected_plan.daily_plans),
                             !.current_plan_id = PyStr(selected_plan.id)],
                          [r EXCEPT !.action = "use"])
                 ELSE Ran(shown, r)

foodlogger_history(x, selected_plan_id, day, use) ==
    LET found == load_meal_plan_from_history(x.ss.meal_plan_history, selected_plan_id)
    IN  IF x.ss.meal_plan_history = <<>> \/ found = <<>> THEN x
        ELSE LET selected_plan == found[1]
                 clicked == IF day # "" THEN [x.ss EXCEPT !.history_current_day = PyStr(day)]
                            ELSE x.ss
                 shown == IF \/ clicked.history_current_day = PyNone
                             \/ ~HasKey(selected_plan.daily_plans, clicked.history_current_day.s)
                          THEN [clicked EXCEPT
                                  !.history_current_day = FirstKey(selected_plan.daily_plans)]
                          ELSE clicked
                 r == [x.r EXCEPT !.selected = selected_plan.id, !.day = day]
             IN  IF ~HasKey(selected_plan.daily_plans, shown.history_current_day.s)
                 THEN \* KeyError at line 426
                      Crashed(Ran(shown, r))
                 ELSE IF use
                 THEN Ran([shown EXCEPT
                             !.meal_plan = PyStr(selected_plan.plan),
                             !.daily_plans = selected_plan.daily_plans,
                             !.current_day = FirstKey(selected_plan.daily_plans),
                             !.current_plan_id = PyStr(selected_plan.id)],
                          [r EXCEPT !.action = "use"])
                 ELSE Ran(shown, r)

\* The options of the selectbox of line 387 ("" when there is no history)
Options(x) ==
    IF x.ss.meal_plan_history = <<>> THEN {""} ELSE HistoryIds(x.ss.meal_plan_history)

\* dotenv.load_dotenv() of line 15 runs on every script run: a key that is set
\* stays set, one that is missing may have been configured since
KeysNow == IF env_key THEN {TRUE} ELSE BOOLEAN

Commit(x) ==
    /\ meal_plan' = x.ss.meal_plan
    /\ daily_plans' = x.ss.daily_plans
    /\ current_day' = x.ss.current_day
    /\ meal_plan_history' = x.ss.meal_plan_history
    /\ current_plan_id' = x.ss.current_plan_id
    /\ history_current_day' = x.ss.history_current_day
    /\ run' = x.r

\* ------------------------------------------------------------------------
\* The session: one action per widget that causes a script run
\* ------------------------------------------------------------------------

SessionIdle ==
    /\ app = "main"
    /\ env_key = FALSE
    /\ meal_plan = InitialState.meal_plan
    /\ daily_plans = InitialState.daily_plans
    /\ current_day = InitialState.current_day
    /\ meal_plan_history = InitialState.meal_plan_history
    /\ current_plan_id = InitialState.current_plan_id
    /\ history_current_day = InitialState.history_current_day
    /\ run = NoRun

Init ==
    /\ ParserIdle
    /\ GenerateIdle
    /\ RecognizeIdle
    /\ ExtractIdle
    /\ app \in {"main", "foodlogger"}
    /\ env_key \in (IF app = "main" THEN {FALSE} ELSE BOOLEAN)
    /\ meal_plan = InitialState.meal_plan
    /\ daily_plans = InitialState.daily_plans
    /\ current_day = InitialState.current_day
    /\ meal_plan_history = InitialState.meal_plan_history
    /\ current_plan_id = InitialState.current_plan_id
    /\ history_current_day = InitialState.history_current_day
    /\ run = NoRun

\* The script runs, each from the session state to what the run leaves

main_generate_run(ss, profile, o) ==
    LET h == main_generate(ss, profile, o)
    IN  IF h.r.crashed THEN h ELSE main_display(h, "")

main_rerun(ss, day) == main_display(Ran(ss, NoRun), day)

\* foodlogger.py: the page up to the history tab, then the history tab with
\* sel in its selectbox
foodlogger_generate_run(ss, key, profile, o, uuid, now) ==
    LET h == foodlogger_generate(ss, key, profile, o, uuid, now)
    IN  IF h.r.crashed THEN h ELSE foodlogger_display(h)

foodlogger_analyze_run(ss, key, v) ==
    LET d == foodlogger_display(Ran(ss, NoRun))
    IN  IF d.r.crashed THEN d ELSE foodlogger_analyze(d, key, v)

foodlogger_history_run(ss, sel, day, use) ==
    LET d == foodlogger_display(Ran(ss, NoRun))
    IN  IF d.r.crashed THEN d ELSE foodlogger_history(d, sel, day, use)

\* main.py: Generate 7-Day Meal Plan
MainGenerate ==
    /\ app = "main"
    /\ \E profile \in Profiles, o \in SessionOutcomes :
         \E x \in {main_generate_run(SessionState, profile, o)} : Commit(x)
    /\ UNCHANGED <<app, env_key, pvars, gvars, rvars, xvars>>

\* main.py: a day button of the plan shown
MainDayButton ==
    /\ app = "main"
    /\ Truthy(meal_plan)
    /\ \E i \in 1..Len(daily_plans) :
         \E x \in {main_rerun(SessionState, daily_plans[i].key)} : Commit(x)
    /\ UNCHANGED <<app, env_key, pvars, gvars, rvars, xvars>>

\* main.py: a sidebar widget changed
MainRerun ==
    /\ app = "main"
    /\ \E x \in {main_rerun(SessionState, "")} : Commit(x)
    /\ UNCHANGED <<app, env_key, pvars, gvars, rvars, xvars>>

\* foodlogger.py: Generate 7-Day Meal Plan
FoodloggerGenerate ==
    /\ app = "foodlogger"
    /\ Len(meal_plan_history) < MaxHistory
    /\ \E key \in KeysNow, profile \in Profiles, o \in SessionOutcomes,
          uuid \in Uuids, now \in Dates :
         \E d \in {foodlogger_generate_run(SessionState, key, profile, o, uuid, now)} :
            \E sel \in Options(d) :
               \E x \in {IF d.r.crashed THEN d ELSE foodlogger_history(d, sel, "", FALSE)} :
                  /\ Commit(x)
                  /\ env_key' = key
    /\ UNCHANGED <<app, pvars, gvars, rvars, xvars>>

\* foodlogger.py: Analyze Food on an uploaded image
FoodloggerAnalyze ==
    /\ app = "foodlogger"
    /\ \E key \in KeysNow, v \in SessionVisionOutcomes :
         \E a \in {foodlogger_analyze_run(SessionState, key, v)} :
            \E sel \in Options(a) :
               \E x \in {IF a.r.crashed THEN a ELSE foodlogger_history(a, sel, "", FALSE)} :
                  /\ Commit(x)
                  /\ env_key' = key
    /\ UNCHANGED <<app, pvars, gvars, rvars, xvars>>

\* foodlogger.py: another plan chosen in the selectbox of the history tab
FoodloggerSelectPlan ==
    /\ app = "foodlogger"
    /\ meal_plan_history # <<>>
    /\ \E key \in KeysNow, sel \in HistoryIds(meal_plan_history) :
         \E x \in {foodlogger_history_run(SessionState, sel, "", FALSE)} :
            /\ Commit(x)
            /\ env_key' = key
    /\ UNCHANGED <<app, pvars, gvars, rvars, xvars>>

\* foodlogger.py: a day button of the plan selected in the history tab
FoodloggerHistoryDay ==
    /\ app = "foodlogger"
    /\ meal_plan_history # <<>>
    /\ \E key \in KeysNow, sel \in HistoryIds(meal_plan_history) :
         \E days \in {load_meal_plan_from_history(meal_plan_history, sel)[1].daily_plans} :
            \E i \in 1..Len(days) :
               \E x \in {foodlogger_history_run(SessionState, sel, days[i].key, FALSE)} :
                  /\ Commit(x)
                  /\ env_key' = key
    /\ UNCHANGED <<app, pvars, gvars, rvars, xvars>>

\* foodlogger.py: Use This Plan Again on the plan selected in the history tab
FoodloggerUsePlan ==
    /\ app = "foodlogger"
    /\ meal_plan_history # <<>>
    /\ \E key \in KeysNow, sel \in HistoryIds(meal_plan_history) :
         \E x \in {foodlogger_history_run(SessionState, sel, "", TRUE)} :
            /\ Commit(x)
            /\ env_key' = key
    /\ UNCHANGED <<app, pvars, gvars, rvars, xvars>>

Next ==
    \/ MainGenerate
    \/ MainDayButton
    \/ MainRerun
    \/ FoodloggerGenerate
    \/ FoodloggerAnalyze
    \/ FoodloggerSelectPlan
    \/ FoodloggerHistoryDay
    \/ FoodloggerUsePlan

vars == <<pvars, gvars, rvars, xvars, svars>>

Spec == Init /\ [][Next]_vars

\* ------------------------------------------------------------------------
\* The parsers alone: a plan text is drawn, each parser is applied to it
\* ------------------------------------------------------------------------

ParserInit ==
    /\ tokens \in TokenSeqs \cup {<<e>> : e \in ErrorTexts}
    /\ text = Concat(tokens)
    /\ res_main = Unset
    /\ res_fl = Unset
    /\ GenerateIdle
    /\ RecognizeIdle
    /\ ExtractIdle
    /\ SessionIdle

ParserNext ==
    \/ ParseMain /\ UNCHANGED <<gvars, rvars, xvars, svars>>
    \/ ParseFoodlogger /\ UNCHANGED <<gvars, rvars, xvars, svars>>

ParserSpec == ParserInit /\ [][ParserNext]_vars

\* ------------------------------------------------------------------------
\* generate_meal_plan alone: a key and an outcome of the call are drawn, each
\* app's function is called
\* ------------------------------------------------------------------------

GenerateInit ==
    /\ ParserIdle
    /\ api_key \in BOOLEAN
    /\ outcome \in Outcomes
    /\ ret_main = NotCalled
    /\ ret_fl = NotCalled
    /\ RecognizeIdle
    /\ ExtractIdle
    /\ SessionIdle

GenerateNext ==
    \/ CallGenerateMain /\ UNCHANGED <<pvars, rvars, xvars, svars>>
    \/ CallGenerateFoodlogger /\ UNCHANGED <<pvars, rvars, xvars, svars>>

GenerateSpec == GenerateInit /\ [][GenerateNext]_vars

\* ------------------------------------------------------------------------
\* recognize_food alone: an outcome of the multimodal call is drawn, the
\* payload is chosen and recognize_food is called
\* ------------------------------------------------------------------------

RecognizeInit ==
    /\ ParserIdle
    /\ GenerateIdle
    /\ \/ /\ wrapper \in Wrappers
          /\ body \in Bodies
          /\ response = [exc |-> NoException, content |-> PyStr(Wrapped(wrapper, body))]
       \/ /\ wrapper = ""
          /\ body = ""
          /\ response \in {o \in VisionOutcomes : Failed(o) \/ o.content.t # "str"}
    /\ payload = NoPayload
    /\ returned_food = NoFoodInfo
    /\ ExtractIdle
    /\ SessionIdle

RecognizeNext ==
    \/ ChoosePayload /\ UNCHANGED <<pvars, gvars, xvars, svars>>
    \/ RecognizeFood /\ UNCHANGED <<pvars, gvars, xvars, svars>>

RecognizeSpec == RecognizeInit /\ [][RecognizeNext]_vars

\* ------------------------------------------------------------------------
\* The nutrient extractor alone: a day text is drawn, extract is applied
\* ------------------------------------------------------------------------

ExtractInit ==
    /\ ParserIdle
    /\ GenerateIdle
    /\ RecognizeIdle
    /\ pieces \in DayPieceSeqs
    /\ day_text = Concat(pieces)
    /\ extracted = NotExtracted
    /\ SessionIdle

ExtractNext == Extract /\ UNCHANGED <<pvars, gvars, rvars, svars>>

ExtractSpec == ExtractInit /\ [][ExtractNext]_vars

\* ------------------------------------------------------------------------
\* What a plan text is at the level of its tokens, stated without the parsers
\* ------------------------------------------------------------------------

\* NAME of a header token, capitalized
HeaderName(h) ==
    CASE h = "DAY 1: MON" -> "Mon"
      [] h = "Day 2: tue" -> "Tue"
      [] h = "day 3: Mon" -> "Mon"

\* The indices of the header tokens of ts, from index i on
RECURSIVE HeaderIdx(_, _)
HeaderIdx(ts, i) ==
    IF i > Len(ts) THEN <<>>
    ELSE (IF ts[i] \in HeaderTokens THEN <<i>> ELSE <<>>) \o HeaderIdx(ts, i + 1)

Headers == HeaderIdx(tokens, 1)
Names == [j \in 1..Len(Headers) |-> HeaderName(tokens[Headers[j]])]

Distinct(q) == \A a, b \in 1..Len(q) : a # b => q[a] # q[b]

\* Every header is followed by something that is no letter: no header token
\* runs into the next one
WellFormed == \A i \in 1..(Len(tokens) - 1) :
                 ~(tokens[i] \in HeaderTokens /\ tokens[i + 1] \in HeaderTokens)

\* The first index >= i of ts whose token is in S (Len(ts)+1 if none)
RECURSIVE FirstIn(_, _, _)
FirstIn(S, ts, i) == IF i > Len(ts) \/ ts[i] \in S THEN i ELSE FirstIn(S, ts, i + 1)

\* The text of the tokens from..to-1
Between(from, to) == Concat(SubSeq(tokens, from, to - 1))

\* The segment of the header at token h: up to the next header
SegmentToNextHeader(h) ==
    Strip(Between(h, FirstIn(HeaderTokens, tokens, h + 1)))

\* The segment of the header at token h, cut at the first delimiter before the
\* next header: the header, a newline, the stripped content
SegmentCutAtDelimiter(h) ==
    tokens[h] \o "\n"
        \o Strip(Between(h + 1, FirstIn(HeaderTokens \cup {Delimiter}, tokens, h + 1)))

Parsed == res_main # Unset /\ res_fl # Unset

\* C1: a text with k >= 1 headers 'DAY n: NAME' of pairwise distinct names,
\* with or without delimiters between the days, is parsed by both variants
\* into exactly k entries keyed by the capitalized names in the order of the
\* headers.
C1_KeysAreHeaderNames ==
    (WellFormed /\ Names # <<>> /\ Distinct(Names)) =>
        /\ res_main # Unset => Keys(res_main) = Names
        /\ res_fl # Unset => Keys(res_fl) = Names

\* C2: a text in which no day header is recognized (the empty text and the
\* error strings among them) is parsed by both variants into the one entry
\* "Full Plan" holding the text unmodified, and no text is parsed into an
\* empty map.
C2_FullPlanFallback ==
    /\ res_main # Unset =>
         /\ res_main # <<>>
         /\ Headers = <<>> => res_main = <<[key |-> "Full Plan", value |-> text]>>
    /\ res_fl # Unset =>
         /\ res_fl # <<>>
         /\ Headers = <<>> => res_fl = <<[key |-> "Full Plan", value |-> text]>>

\* C2: an error string has been parsed by both variants
C2_ErrorTextParsed ==
    /\ Parsed
    /\ text \in ErrorTexts
    /\ Len(res_main) = 1
    /\ Len(res_fl) = 1

\* C3: in foodlogger.py the segment stored for a header runs from the header
\* to the next header or the end of the text, cut at the first delimiter that
\* comes before the next header; it holds no later day's header or content.
C3_SegmentStopsAtNextHeader ==
    (WellFormed /\ Distinct(Names) /\ res_fl # Unset) =>
        \A j \in 1..Len(Headers) :
            HasKey(res_fl, Names[j]) =>
                Get(res_fl, Names[j]) = SegmentCutAtDelimiter(Headers[j])

\* s without its whitespace
RECURSIVE SqueezeSpace(_)
SqueezeSpace(s) ==
    IF s = "" THEN ""
    ELSE IF Ch(s, 1) \in Space THEN SqueezeSpace(SubSeq(s, 2, Len(s)))
    ELSE Ch(s, 1) \o SqueezeSpace(SubSeq(s, 2, Len(s)))

\* s without its whitespace and its delimiters
RECURSIVE SqueezeSeparators(_)
SqueezeSeparators(s) ==
    IF s = "" THEN ""
    ELSE IF Ch(s, 1) \in Space THEN SqueezeSeparators(SubSeq(s, 2, Len(s)))
    ELSE IF DelimiterAt(s, 1) THEN SqueezeSeparators(SubSeq(s, 6, Len(s)))
    ELSE Ch(s, 1) \o SqueezeSeparators(SubSeq(s, 2, Len(s)))

\* The segments of a map, in its order
Segments(d) == Concat([i \in 1..Len(d) |-> d[i].value])

\* The tokens from index i on that lie between a header met outside a day and
\* the delimiter that closes the day
RECURSIVE ClosedDays(_, _, _)
ClosedDays(ts, i, inside) ==
    IF i > Len(ts) THEN <<>>
    ELSE IF inside
         THEN IF ts[i] = Delimiter THEN ClosedDays(ts, i + 1, FALSE)
              ELSE <<ts[i]>> \o ClosedDays(ts, i + 1, TRUE)
    ELSE IF ts[i] \in HeaderTokens THEN <<ts[i]>> \o ClosedDays(ts, i + 1, TRUE)
    ELSE ClosedDays(ts, i + 1, FALSE)

\* C4 as stated: for a text with at least one header, the segments of either
\* variant, in order, are the whole text up to the separators (delimiters and
\* whitespace); nothing of the text is lost.
C4_SegmentsAreWholeText ==
    (WellFormed /\ Names # <<>> /\ Distinct(Names)) =>
        /\ res_main # Unset => SqueezeSeparators(Segments(res_main)) = SqueezeSeparators(text)
        /\ res_fl # Unset => SqueezeSeparators(Segments(res_fl)) = SqueezeSeparators(text)

\* C4 amended: for a text with at least one header and pairwise distinct
\* names, the segments in order are, up to whitespace, in main.py the text
\* from the first header to the end, and in foodlogger.py the text of every
\* day from a header met outside a day to the delimiter closing it (or the end
\* of the text); the text before the first header, and in foodlogger.py the
\* delimiters and the text between a delimiter and the next header, is in no
\* segment.
C4_SegmentsAreTextFromHeaders ==
    (WellFormed /\ Names # <<>> /\ Distinct(Names)) =>
        /\ res_main # Unset =>
             SqueezeSpace(Segments(res_main))
                 = SqueezeSpace(Between(Headers[1], Len(tokens) + 1))
        /\ res_fl # Unset =>
             SqueezeSpace(Segments(res_fl)) = SqueezeSpace(Concat(ClosedDays(tokens, 1, FALSE)))

\* C4: a text with content before its first header, two days and a delimiter
\* between them has been parsed by both variants
C4_PreambleAndTwoDaysParsed ==
    /\ Parsed
    /\ WellFormed /\ Distinct(Names)
    /\ Len(Headers) = 2
    /\ Headers[1] > 1
    /\ tokens[1] = " egg"
    /\ Len(res_main) = 2
    /\ Len(res_fl) = 2

\* The names of q, each at its first occurrence
RECURSIVE FirstSeen(_, _)
FirstSeen(q, seen) ==
    IF q = <<>> THEN <<>>
    ELSE IF Head(q) \in seen THEN FirstSeen(Tail(q), seen)
    ELSE <<Head(q)>> \o FirstSeen(Tail(q), seen \cup {Head(q)})

\* The token of the last header named name
LastHeader(name) ==
    Headers[CHOOSE j \in 1..Len(Names) :
                /\ Names[j] = name
                /\ \A k \in (j + 1)..Len(Names) : Names[k] # name]

\* C5: when a day name appears in more than one header, either variant keeps
\* one entry for it, at the position of the name's first occurrence, holding
\* the segment of its last occurrence.
C5_LastOccurrenceAtFirstPosition ==
    (WellFormed /\ ~Distinct(Names)) =>
        /\ res_main # Unset =>
             /\ Keys(res_main) = FirstSeen(Names, {})
             /\ \A j \in 1..Len(Names) :
                  Get(res_main, Names[j]) = SegmentToNextHeader(LastHeader(Names[j]))
        /\ res_fl # Unset =>
             /\ Keys(res_fl) = FirstSeen(Names, {})
             /\ \A j \in 1..Len(Names) :
                  Get(res_fl, Names[j]) = SegmentCutAtDelimiter(LastHeader(Names[j]))

\* ------------------------------------------------------------------------
\* generate_meal_plan and the session
\* ------------------------------------------------------------------------

\* The failures of the generation call: no connection, a non-2xx status, a
\* malformed JSON body, a missing key of the response
GenerationFailures ==
    {ConnectionError, HTTPError, RequestsJSONDecodeError, ValueError, KeyError}

\* C6: whenever the generation call fails (no connection, non-2xx status,
\* malformed JSON body, missing key), generate_meal_plan of either variant
\* returns a string that begins with "Error".
C6_FailureReturnsErrorPrefix ==
    outcome.exc \in GenerationFailures =>
        /\ ret_main.called =>
             ret_main.value.t = "str" /\ StartsWith(ret_main.value.s, "Error")
        /\ ret_fl.called =>
             ret_fl.value.t = "str" /\ StartsWith(ret_fl.value.s, "Error")

\* C7: whatever the external calls give, no script run of Generate or of
\* Analyze Food ends in an uncaught exception: no reachable state is a crashed
\* session.
C7_NoCrashedSession == ~run.crashed

\* C8: in foodlogger.py a Generate run with the API key absent shows an error,
\* issues no request and leaves meal_plan, daily_plans, current_day,
\* current_plan_id and meal_plan_history as they were; generate_meal_plan
\* called without the key returns an "Error"-prefixed string and makes no
\* request, whatever the call would have given.
C8_MissingKeyBlocksGenerate ==
    /\ [][(app' = "foodlogger" /\ run'.action = "generate" /\ ~env_key') =>
              /\ run'.error # ""
              /\ ~run'.requested
              /\ UNCHANGED <<meal_plan, daily_plans, current_day, current_plan_id,
                             meal_plan_history>>]_vars
    /\ [](\A o \in Outcomes :
             /\ generate_meal_plan_foodlogger(FALSE, o).value.t = "str"
             /\ StartsWith(generate_meal_plan_foodlogger(FALSE, o).value.s, "Error")
             /\ ~generate_meal_plan_foodlogger(FALSE, o).requested)

\* C8: Generate has run in foodlogger.py with the key absent
C8_GenerateRanWithoutKey ==
    /\ app = "foodlogger"
    /\ run.action = "generate"
    /\ ~env_key
    /\ run.error = MissingKeyGenerate

\* C9: over any sequence of script runs meal_plan_history either stays as it
\* is or gains exactly one entry at index 0, every earlier entry staying
\* unchanged and in its order.
C9_HistoryGrowsAtFront ==
    [][\/ meal_plan_history' = meal_plan_history
       \/ /\ Len(meal_plan_history') = Len(meal_plan_history) + 1
          /\ Tail(meal_plan_history') = meal_plan_history]_vars

\* C9: with two plans saved, the older one has been taken up again with Use
\* This Plan Again
C9_OlderPlanUsedAgain ==
    /\ Len(meal_plan_history) = 2
    /\ meal_plan_history[1].id # meal_plan_history[2].id
    /\ run.action = "use"
    /\ current_plan_id = PyStr(meal_plan_history[2].id)

\* C10: no two entries of meal_plan_history have the same id, and
\* load_meal_plan_from_history of an entry's id returns that entry.
C10_HistoryIdsUnique ==
    /\ \A i, j \in 1..Len(meal_plan_history) :
         i # j => meal_plan_history[i].id # meal_plan_history[j].id
    /\ \A i \in 1..Len(meal_plan_history) :
         load_meal_plan_from_history(meal_plan_history, meal_plan_history[i].id)
             = <<meal_plan_history[i]>>

\* ------------------------------------------------------------------------
\* recognize_food
\* ------------------------------------------------------------------------

\* The bodies that are a JSON object from '{' to '}', and those among them
\* that are an object whose 'ingredients', if any, is a mapping
CompleteObjects ==
    {EggsJson, SaladJson, ToastJson, SoupJson, EmptyJson, NumberMealJson, IngredientListJson}
ExpectedObjects == CompleteObjects \ {IngredientListJson}

\* The answer is a text
Answered == wrapper # ""

\* The payload chosen from the answer is no JSON object of the expected shape:
\* the body is none, or the answer as a whole is chosen and is an object
\* followed by more text
Unparseable == body \notin ExpectedObjects \/ wrapper = "object then fenced"

EndsWith(s, suffix) ==
    Len(s) >= Len(suffix) /\ SubSeq(s, Len(s) - Len(suffix) + 1, Len(s)) = suffix

\* C11: for every answer whose chosen payload cannot be parsed as the expected
\* JSON object (free text, broken JSON, JSON that is no object, an object
\* whose 'ingredients' is no mapping), recognize_food returns the
\* parse-failure result that carries the raw answer.
C11_UnparseableCarriesRawText ==
    (Answered /\ returned_food.returned /\ Unparseable) =>
        /\ returned_food.value.dict
        /\ ~returned_food.value.raw
        /\ EndsWith(returned_food.value.nutritional_analysis, response.content.s)

\* The payload by the three rules, in their order: the trimmed answer starts
\* with '{'; else a closed json fence holds the body; else the body is a span
\* from '{' to '}' in prose; else the answer as a whole
PayloadByPriority ==
    IF \/ wrapper \in {"plain", "padded"} /\ body \in CompleteObjects \cup {BrokenJson}
       \/ wrapper = "object then fenced"
    THEN response.content.s
    ELSE IF wrapper \in {"fenced", "prose fenced", "braces then fenced"}
         THEN body
    ELSE IF wrapper \in {"prose", "open fence"} /\ body \in CompleteObjects
         THEN body
    ELSE response.content.s

\* C12: the payload recognize_food parses is chosen in a fixed priority order:
\* the whole answer if trimmed it starts with '{'; otherwise the content of a
\* json fenced block if there is one; otherwise the span from the first '{' to
\* the last '}' if there is one; otherwise the whole answer.
C12_PayloadChosenByPriority ==
    payload.chosen => payload.text = PayloadByPriority

\* C12: the payload has been chosen from an answer with braces in the prose
\* before a fenced block
C12_FenceChosenOverBraces ==
    /\ payload.chosen
    /\ wrapper = "braces then fenced"
    /\ body = SaladJson
    /\ payload.text = SaladJson

\* The detected items of an expected object: the keys of 'ingredients' in
\* their order, else the meal, else nothing
ItemsOf(b) ==
    CASE b = EggsJson -> <<PyStr("egg white")>>
      [] b = SaladJson -> <<PyStr("tomato"), PyStr("feta")>>
      [] b = ToastJson -> <<PyStr("Toast")>>
      [] b = SoupJson -> <<PyStr("Soup")>>
      [] b = EmptyJson -> <<>>
      [] b = NumberMealJson -> <<PyNum>>

\* C13: on a successful parse the detected items are the keys of the
\* 'ingredients' mapping in their order; when the mapping is empty or absent
\* they are the one 'meal' if it is present, and none otherwise.
C13_DetectedItemsAreIngredientKeys ==
    (Answered /\ returned_food.returned /\ ~Unparseable) =>
        /\ returned_food.value.dict
        /\ returned_food.value.raw
        /\ returned_food.value.detected_items = ItemsOf(body)

\* C13: recognize_food has returned the meal for an object with an empty
\* 'ingredients' mapping
C13_MealForEmptyIngredients ==
    /\ returned_food.returned
    /\ body = ToastJson
    /\ wrapper = "prose fenced"
    /\ returned_food.value.detected_items = <<PyStr("Toast")>>

\* The summary of an expected object, line by line
SummaryOf(b) ==
    CASE b = EggsJson ->
            <<"## Eggs", "### Ingredients:", "#### Egg White",
              "- Calories: 70 kcal", "- Protein: 6 g",
              "### Total Nutritional Value:", "- Calories: 70 kcal", "- Protein: 6 g">>
      [] b = SaladJson ->
            <<"## Salad", "### Ingredients:", "#### Tomato",
              "- Calories: 20 kcal", "- Saturated Fat: 0 g",
              "#### Feta", "- Calories: 70 kcal", "- Protein: 6 g",
              "### Total Nutritional Value:", "- Calories: 90 kcal", "- Protein: 6 g">>
      [] b = ToastJson -> <<"## Toast", "### Ingredients:">>
      [] b = SoupJson -> <<"## Soup">>
      [] b = EmptyJson -> <<>>
      [] b = NumberMealJson -> <<"## 5">>

\* The lines of a text
RECURSIVE SplitLines(_, _)
SplitLines(s, from) ==
    LET nl == Find(s, "\n", from)
    IN  IF nl = 0 THEN <<SubSeq(s, from, Len(s))>>
        ELSE <<SubSeq(s, from, nl - 1)>> \o SplitLines(s, nl + 1)

\* C14: format_nutritional_data renders every field of every ingredient and
\* of 'total' as one line '- <Field Title-Cased>: <value> <unit>', the unit
\* being kcal for calories and g for every other field, ingredient and total
\* lines alike, in the order meal heading, ingredients, total.
C14_SummaryLines ==
    (Answered /\ returned_food.returned /\ ~Unparseable) =>
        returned_food.value.nutritional_analysis = JoinLines(SummaryOf(body))

\* C14: the summary of an object with two ingredients and a total has been
\* rendered
C14_SaladRendered ==
    /\ returned_food.returned
    /\ body = SaladJson
    /\ wrapper = "plain"
    /\ SplitLines(returned_food.value.nutritional_analysis, 1)[5] = "- Saturated Fat: 0 g"
    /\ SplitLines(returned_food.value.nutritional_analysis, 1)[10] = "- Calories: 90 kcal"

\* ------------------------------------------------------------------------
\* The nutrient extractor
\* ------------------------------------------------------------------------

\* What a piece mentions: a nutrient and a number, or nothing
NoNutrient == [name |-> "", value |-> [whole |-> 0, frac |-> ""]]

MentionOf(piece) ==
    CASE piece = "Calories: 2000" -> [name |-> "Calories", value |-> [whole |-> 2000, frac |-> ""]]
      [] piece = "Protein: 42" -> [name |-> "Protein", value |-> [whole |-> 42, frac |-> ""]]
      [] piece = "protein : 50.5" -> [name |-> "Protein", value |-> [whole |-> 50, frac |-> "5"]]
      [] piece = "Carbs:7" -> [name |-> "Carbs", value |-> [whole |-> 7, frac |-> ""]]
      [] piece = "Fat: 70" -> [name |-> "Fat", value |-> [whole |-> 70, frac |-> ""]]
      [] piece = "Fiber: 30.0" -> [name |-> "Fiber", value |-> [whole |-> 30, frac |-> ""]]
      [] OTHER -> NoNutrient

Mentioned(name) == \E i \in 1..Len(pieces) : MentionOf(pieces[i]).name = name

FirstValue(name) ==
    MentionOf(pieces[Least({i \in 1..Len(pieces) : MentionOf(pieces[i]).name = name})]).value

\* The names from index i on that are mentioned (or not), in the canonical order
RECURSIVE NamesWhere(_, _)
NamesWhere(i, mentioned) ==
    IF i > Len(NutrientNames) THEN <<>>
    ELSE (IF Mentioned(NutrientNames[i]) = mentioned THEN <<NutrientNames[i]>> ELSE <<>>)
             \o NamesWhere(i + 1, mentioned)

\* C15: extract returns a snapshot holding, for each of Calories, Protein,
\* Carbs, Fat, Fiber that the day text mentions as '<Name>: <number>', the
\* value of its first mention, and a missing list of exactly the nutrients
\* without a mention, in the canonical order.
C15_FirstMentionsAndMissing ==
    extracted.done =>
        /\ Keys(extracted.snapshot) = NamesWhere(1, TRUE)
        /\ \A i \in 1..Len(extracted.snapshot) :
             extracted.snapshot[i].value = FirstValue(extracted.snapshot[i].key)
        /\ extracted.missing = NamesWhere(1, FALSE)

\* C15: a day text that mentions protein twice and nothing else has been
\* extracted
C15_ProteinOnly ==
    /\ extracted.done
    /\ pieces = <<"Protein: 42", " and ", "protein : 50.5">>
    /\ extracted.snapshot = <<[key |-> "Protein", value |-> [whole |-> 42, frac |-> ""]]>>
    /\ extracted.missing = <<"Calories", "Carbs", "Fat", "Fiber">>

\* ------------------------------------------------------------------------
\* C16: in foodlogger.py a Generate run whose API call failed shows an error
\* and leaves meal_plan, daily_plans, current_day, current_plan_id and
\* meal_plan_history as they were, so that no failure text is ever stored as
\* the current plan or saved to history.
\* ------------------------------------------------------------------------

C16_FailedGenerateChangesNothing ==
    [][(app = "foodlogger" /\ run'.action = "generate" /\ run'.failed)
         => /\ run'.error # ""
            /\ UNCHANGED <<meal_plan, daily_plans, current_day, current_plan_id,
                           meal_plan_history>>]_vars

\* ------------------------------------------------------------------------
\* C17: in foodlogger.py, whenever current_plan_id is not None the history
\* holds an entry with that id whose plan is the session's meal_plan and whose
\* daily_plans are the session's daily_plans, and the daily_plans of every
\* history entry are parse_meal_plan_by_day of the plan of that entry.
\* ------------------------------------------------------------------------

C17_CurrentPlanIsInHistory ==
    app = "foodlogger" =>
        /\ current_plan_id # PyNone =>
               \E i \in 1..Len(meal_plan_history) :
                  /\ meal_plan_history[i].id = current_plan_id.s
                  /\ PyStr(meal_plan_history[i].plan) = meal_plan
                  /\ meal_plan_history[i].daily_plans = daily_plans
        /\ \A i \in 1..Len(meal_plan_history) :
               meal_plan_history[i].daily_plans
                   = parse_meal_plan_by_day_foodlogger(meal_plan_history[i].plan)

\* ------------------------------------------------------------------------
\* C18: every day lookup made when rendering hits an existing key.  Whenever
\* meal_plan is set and current_day is not None, daily_plans is non-empty and
\* current_day is one of its keys; the day the history tab displays is a key
\* of the daily_plans of the selected entry: the day clicked or remembered
\* when that is one of the entry's days, else the entry's first day.
\* ------------------------------------------------------------------------

\* The history entry a run showed
SelectedEntry(history, r) == load_meal_plan_from_history(history, r.selected)[1]

CurrentDayIsKey ==
    (Truthy(meal_plan) /\ current_day # PyNone)
        => (daily_plans # <<>> /\ HasKey(daily_plans, current_day.s))

HistoryDayIsKey ==
    run.selected # ""
        => /\ history_current_day # PyNone
           /\ HasKey(SelectedEntry(meal_plan_history, run).daily_plans,
                     history_current_day.s)

HistoryDayFallsBack ==
    run'.selected # "" =>
        LET entry == SelectedEntry(meal_plan_history', run')
            remembered == IF run'.day # "" THEN PyStr(run'.day) ELSE history_current_day
        IN  history_current_day' =
                IF remembered # PyNone /\ HasKey(entry.daily_plans, remembered.s)
                THEN remembered
                ELSE FirstKey(entry.daily_plans)

C18_DayLookupsHitKeys ==
    /\ [](CurrentDayIsKey /\ HistoryDayIsKey)
    /\ [][HistoryDayFallsBack]_vars

\* C18 witness: with two plans of different days in the history and a plan
\* on the page, the history tab shows the older plan on that plan's first day,
\* which is no day of the newer plan
C18_OlderPlanShownOnItsFirstDay ==
    /\ Len(meal_plan_history) = 2
    /\ meal_plan_history[1].id # meal_plan_history[2].id
    /\ run.selected = meal_plan_history[2].id
    /\ history_current_day = FirstKey(meal_plan_history[2].daily_plans)
    /\ ~HasKey(meal_plan_history[1].daily_plans, history_current_day.s)
    /\ Truthy(meal_plan)
    /\ current_day # PyNone

=============================================================================
